---- MODULE Spec2Model ----
(***************************************************************************)
(* The master-mode I2C driver of lib_i2c.c (i2c_ping, i2c_read, i2c_write) *)
(* as a state machine.  Each statement or poll of a wait loop is one       *)
(* action.  The peripheral is the environment: under Spec every poll of a  *)
(* status bit and every read of the data register may return any value;    *)
(* under SpecSim the peripheral is a simulated bus with one register-file  *)
(* device on it.                                                           *)
(***************************************************************************)
EXTENDS Integers, Sequences, FiniteSets

(* ------------------------------------------------------------ bounds --- *)

\* Iteration budget of the bounded waits (I2C_TIMEOUT of lib_i2c.h).
I2C_TIMEOUT == 2

\* Largest transfer length a caller asks for (len is a uint8_t in the code).
MaxLen == 3

\* The caller's buffer is one byte longer than the longest transfer.
BufCap == MaxLen + 1

(* ------------------------------------------------------ value domains --- *)

Callers == {1, 2}

\* Address bytes callers pass: 0x00, 0x42, 0x84 (= 0x42 << 1), 0x85, 0xFF.
AddrVals == {0, 66, 132, 133, 255}

\* Register indexes callers pass: 0x10, 0x11.
RegVals == {16, 17}

\* First bytes of the buffers callers write: [1,2,3,..] and [254,255,0,..].
BufSeeds == {1, 254}

\* Bytes an unconstrained device may transmit.
RxVals == {1, 2, 255}

\* The end of i2c_scan's sweep: for(addr = 0x00; addr < 0x7F; addr++).
ScanEnd == 127

\* The 7-bit address of the simulated device (0x42).
DevAddr == 66

Pattern(s) == [i \in 1..BufCap |-> (s + i - 1) % 256]
\* A caller's receive buffer before the call: every byte 0xAA.
FillBuf == [i \in 1..BufCap |-> 170]

(* ------------------------------------------------------ bit operations --- *)

RECURSIVE BitAnd(_, _)
BitAnd(a, b) ==
  IF a = 0 \/ b = 0 THEN 0
  ELSE (a % 2) * (b % 2) + 2 * BitAnd(a \div 2, b \div 2)

RECURSIVE BitOr(_, _)
BitOr(a, b) ==
  IF a = 0 THEN b
  ELSE IF b = 0 THEN a
  ELSE (IF a % 2 = 1 \/ b % 2 = 1 THEN 1 ELSE 0) + 2 * BitOr(a \div 2, b \div 2)

(* ------------------------------------------------------------- state --- *)

VARIABLES
  sim,        \* TRUE: the peripheral is the simulated bus and device
  STAR2_BUSY, \* bus-busy flag of the simulated bus
  CTLR1_ACK,  \* the ACK control bit of I2C1->CTLR1
  dev,        \* the simulated device: [phase, ptr, cnt]
  mem,        \* the simulated device's stored bytes, per register
  pc,         \* per caller: where it stands in the driver
  op,         \* per caller: the operation it is in or has returned from
  addr, reg, len, buf,   \* per caller: the arguments of the call
  timeout,    \* per caller: the local int32_t timeout
  cbyte,      \* per caller: the local uint8_t cbyte
  ret_sta,    \* per caller: the local ret_sta of i2c_ping
  result,     \* per caller: the value the call returned, or "none"
  polls,      \* per caller: evaluations of the current bounded wait
  log,        \* per caller: the bus actions and observations of the call
  rt,         \* the write whose bytes the next call is to read back, if any
  busflag,    \* TRUE: the busy flag read is the one START sets and STOP clears
  excl,       \* TRUE: callers serialize their calls, one critical section each
  nacked,     \* a read or write has returned NoAck to its caller
  raced,      \* a caller asserted START while another stood before its START
  txn,        \* callers that wrote the data register since the last STOP
  inscan,     \* per caller: the call in progress was made by i2c_scan
  scan_addr,  \* per caller: the local uint8_t addr of i2c_scan
  pinged,     \* per caller: the candidates i2c_scan has pinged, in order
  reported    \* per caller: the addresses i2c_scan has printed, in order

hw == <<sim, STAR2_BUSY, CTLR1_ACK, dev, mem>>
args == <<op, addr, reg, len>>
vars == <<sim, STAR2_BUSY, CTLR1_ACK, dev, mem, pc, op, addr, reg, len, buf,
          timeout, cbyte, ret_sta, result, polls, log, rt, busflag, excl,
          nacked, raced, txn, inscan, scan_addr, pinged, reported>>
modes == <<busflag, excl>>
scanv == <<inscan, scan_addr, pinged, reported>>

\* No write is waiting to be read back.
NoRT == [on |-> FALSE, addr |-> 0, reg |-> 0, data |-> <<>>]

Ev(e, v) == [e |-> e, v |-> v]

Goto(c, l) == pc' = [pc EXCEPT ![c] = l]
Emit(c, e, v) == log' = [log EXCEPT ![c] = Append(@, Ev(e, v))]
\* Caller c writes the data register: it joins the open bus transaction.
TxnWrite(c) ==
  txn' = IF txn # <<>> /\ txn[Len(txn)] = c THEN txn ELSE Append(txn, c)

\* Callers that serialize start a call only while no other call is running.
CanCall(c) ==
  excl => \A d \in Callers \ {c} : pc[d] \in {"idle", "done", "off"}

Return(c, r) ==
  /\ pc' = [pc EXCEPT ![c] = "done"]
  /\ result' = [result EXCEPT ![c] = r]

(* -------------------------------------------------------- peripheral --- *)

\* What a read of I2C1->STAR2 & I2C_STAR2_BUSY may give.
BusyVals == IF sim \/ busflag THEN {STAR2_BUSY} ELSE BOOLEAN

\* What the simulated peripheral reports for an event or status bit.
SimStatus(e) ==
  CASE e = "MASTER_MODE_SELECT" -> dev.phase = "addr"
    [] e = "MASTER_TRANSMITTER_MODE_SELECTED" -> dev.phase = "reg"
    [] e = "MASTER_RECEIVER_MODE_SELECTED" -> dev.phase = "tx"
    [] e = "MASTER_BYTE_TRANSMITTED" -> dev.phase \in {"reg", "data"}
    [] e = "TXE" -> dev.phase \in {"reg", "data"}
    [] e = "RXNE" -> dev.phase = "tx"

\* What i2c_status(e), or a read of a STAR1 bit, may give.
i2c_status(e) == IF sim THEN {SimStatus(e)} ELSE BOOLEAN

\* The byte the simulated device transmits next (0xFF past what it stores).
SimRead ==
  IF dev.phase = "tx" /\ dev.ptr \in DOMAIN mem /\ dev.cnt < Len(mem[dev.ptr])
  THEN mem[dev.ptr][dev.cnt + 1]
  ELSE 255

\* What a read of I2C1->DATAR may give.
DatarVals == IF sim THEN {SimRead} ELSE RxVals

\* I2C1->CTLR1 |= I2C_CTLR1_START on the bus.
HwStart ==
  /\ STAR2_BUSY' = TRUE
  /\ dev' = IF sim THEN [dev EXCEPT !.phase = "addr", !.cnt = 0] ELSE dev
  /\ mem' = mem

\* I2C1->CTLR1 |= I2C_CTLR1_STOP on the bus.
HwStop ==
  /\ STAR2_BUSY' = FALSE
  /\ dev' = IF sim THEN [dev EXCEPT !.phase = "idle", !.cnt = 0] ELSE dev
  /\ mem' = mem

\* I2C1->DATAR = v on the bus: the device takes v as the address byte, the
\* register index or a data byte, by its place in the transaction.
HwWrite(v) ==
  /\ STAR2_BUSY' = STAR2_BUSY
  /\ IF ~sim THEN dev' = dev /\ mem' = mem
     ELSE CASE dev.phase = "addr" ->
                 /\ dev' = [dev EXCEPT !.phase =
                              IF v \div 2 # DevAddr THEN "deaf"
                              ELSE IF v % 2 = 0 THEN "reg" ELSE "tx"]
                 /\ mem' = mem
            [] dev.phase = "reg" ->
                 /\ dev' = [dev EXCEPT !.phase = "data", !.ptr = v, !.cnt = 0]
                 /\ mem' = mem
            [] dev.phase = "data" /\ dev.ptr \in DOMAIN mem ->
                 /\ dev' = [dev EXCEPT !.cnt = @ + 1]
                 /\ mem' = [mem EXCEPT ![dev.ptr] =
                              IF dev.cnt = 0 THEN <<v>> ELSE Append(@, v)]
            [] OTHER -> dev' = dev /\ mem' = mem

\* A read of I2C1->DATAR on the bus: the device moves on to its next byte.
HwRead ==
  /\ STAR2_BUSY' = STAR2_BUSY
  /\ dev' = IF sim /\ dev.phase = "tx" THEN [dev EXCEPT !.cnt = @ + 1] ELSE dev
  /\ mem' = mem

(* ------------------------------------------------------ shared steps --- *)

\* Mutant of IdleWait: an exhausted idle wait falls through to START.
IdleWait_FallsThrough(c, next) ==
  /\ \E b \in BusyVals :
       IF b
       THEN /\ timeout' = [timeout EXCEPT ![c] = @ - 1]
            /\ polls' = [polls EXCEPT ![c] = @ + 1]
            /\ IF timeout[c] - 1 < 0
               THEN Goto(c, next)
               ELSE UNCHANGED pc
            /\ UNCHANGED <<log, result>>
       ELSE /\ Goto(c, next)
            /\ polls' = [polls EXCEPT ![c] = @ + 1]
            /\ Emit(c, "IDLE", 0)
            /\ UNCHANGED <<timeout, result>>
  /\ UNCHANGED <<rt, modes, scanv, nacked, raced, txn, hw, args, buf, cbyte, ret_sta>>

\* while(I2C1->STAR2 & I2C_STAR2_BUSY) if(--timeout < 0) return I2C_ERR_TIMEOUT;
IdleWait(c, next) ==
  /\ \E b \in BusyVals :
       IF b
       THEN /\ timeout' = [timeout EXCEPT ![c] = @ - 1]
            /\ polls' = [polls EXCEPT ![c] = @ + 1]
            /\ IF timeout[c] - 1 < 0
               THEN Return(c, "I2C_ERR_TIMEOUT")
               ELSE UNCHANGED <<pc, result>>
            /\ UNCHANGED log
       ELSE /\ Goto(c, next)
            /\ polls' = [polls EXCEPT ![c] = @ + 1]
            /\ Emit(c, "IDLE", 0)
            /\ UNCHANGED <<timeout, result>>
  /\ UNCHANGED <<rt, modes, scanv, nacked, raced, txn, hw, args, buf, cbyte, ret_sta>>

\* Caller d has left its idle wait and has not yet asserted START.
BeforeStart(d) == pc[d] \in {"ping_start", "read_start", "write_start"}

\* I2C1->CTLR1 |= I2C_CTLR1_START;
SendStart(c, next) ==
  /\ HwStart
  /\ Emit(c, "START", 0)
  /\ Goto(c, next)
  /\ raced' = (raced \/ \E d \in Callers \ {c} : BeforeStart(d))
  /\ UNCHANGED <<rt, modes, scanv, nacked, txn, sim, CTLR1_ACK, args, buf, timeout, cbyte, ret_sta, result, polls>>

\* while(!i2c_status(e)); and while(!(I2C1->STAR1 & e));
WaitFor(c, e, next) ==
  /\ \E s \in i2c_status(e) :
       IF s
       THEN Goto(c, next) /\ Emit(c, e, 0)
       ELSE UNCHANGED <<pc, log>>
  /\ UNCHANGED <<rt, modes, scanv, nacked, raced, txn, hw, args, buf, timeout, cbyte, ret_sta, result, polls>>

\* timeout = I2C_TIMEOUT; I2C1->DATAR = v;
SendAddr(c, kind, v, next) ==
  /\ timeout' = [timeout EXCEPT ![c] = I2C_TIMEOUT]
  /\ polls' = [polls EXCEPT ![c] = 0]
  /\ HwWrite(v)
  /\ Emit(c, kind, v)
  /\ Goto(c, next)
  /\ TxnWrite(c)
  /\ UNCHANGED <<rt, modes, scanv, nacked, raced, sim, CTLR1_ACK, args, buf, cbyte, ret_sta, result>>

\* I2C1->CTLR1 |= I2C_CTLR1_STOP; return r;
SendStop(c, r) ==
  /\ HwStop
  /\ Emit(c, "STOP", 0)
  /\ Return(c, r)
  /\ rt' = IF op[c] = "write"
           THEN [on |-> TRUE, addr |-> addr[c], reg |-> reg[c],
                 data |-> SubSeq(buf[c], 1, len[c])]
           ELSE rt
  /\ txn' = <<>>
  /\ UNCHANGED <<modes, scanv, nacked, raced, sim, CTLR1_ACK, args, buf, timeout, cbyte, ret_sta, polls>>

\* Mutant of WaitAck: the budget is counted in an unsigned variable, so
\* --timeout < 0 is never true and the wait ends only with the event.
WaitAck_Unsigned(c, e, next) ==
  /\ polls' = [polls EXCEPT ![c] = IF @ > I2C_TIMEOUT THEN @ ELSE @ + 1]
  /\ \E s \in i2c_status(e) :
       IF s
       THEN /\ Goto(c, next)
            /\ Emit(c, e, 0)
            /\ UNCHANGED <<timeout, result>>
       ELSE /\ timeout' = [timeout EXCEPT ![c] = (@ - 1) % (I2C_TIMEOUT + 1)]
            /\ UNCHANGED <<pc, result, log>>
  /\ UNCHANGED <<rt, modes, scanv, nacked, raced, txn, hw, args, buf, cbyte, ret_sta>>

\* while(!i2c_status(e)) { if(--timeout < 0) return I2C_ERR_NACK; }
WaitAck(c, e, next) ==
  /\ polls' = [polls EXCEPT ![c] = @ + 1]
  /\ \E s \in i2c_status(e) :
       IF s
       THEN /\ Goto(c, next)
            /\ Emit(c, e, 0)
            /\ UNCHANGED <<timeout, result>>
       ELSE /\ timeout' = [timeout EXCEPT ![c] = @ - 1]
            /\ IF timeout[c] - 1 < 0
               THEN Return(c, "I2C_ERR_NACK")
               ELSE UNCHANGED <<pc, result>>
            /\ UNCHANGED log
  /\ UNCHANGED <<rt, modes, scanv, nacked, raced, txn, hw, args, buf, cbyte, ret_sta>>

\* I2C1->DATAR = reg;
SendReg(c, next) ==
  /\ HwWrite(reg[c])
  /\ Emit(c, "REG", reg[c])
  /\ Goto(c, next)
  /\ TxnWrite(c)
  /\ UNCHANGED <<rt, modes, scanv, nacked, raced, sim, CTLR1_ACK, args, buf, timeout, cbyte, ret_sta, result, polls>>

\* uint8_t cbyte = 0;
InitCbyte(c, next) ==
  /\ cbyte' = [cbyte EXCEPT ![c] = 0]
  /\ Goto(c, next)
  /\ UNCHANGED <<rt, modes, scanv, nacked, raced, txn, hw, args, buf, timeout, ret_sta, result, polls, log>>

\* while(cbyte < len)
LoopTest(c, body, exit) ==
  /\ Goto(c, IF cbyte[c] < len[c] THEN body ELSE exit)
  /\ UNCHANGED <<rt, modes, scanv, nacked, raced, txn, hw, args, buf, timeout, cbyte, ret_sta, result, polls, log>>

(* ----------------------------------------------------------- i2c_ping --- *)

ping_Call(c) ==
  /\ pc[c] = "idle"
  /\ CanCall(c)
  /\ \E a \in AddrVals :
       /\ op' = [op EXCEPT ![c] = "ping"]
       /\ addr' = [addr EXCEPT ![c] = a]
  /\ reg' = [reg EXCEPT ![c] = 0]
  /\ len' = [len EXCEPT ![c] = 0]
  /\ buf' = [buf EXCEPT ![c] = FillBuf]
  /\ cbyte' = [cbyte EXCEPT ![c] = 0]
  /\ ret_sta' = [ret_sta EXCEPT ![c] = "I2C_OK"]
  /\ timeout' = [timeout EXCEPT ![c] = I2C_TIMEOUT]
  /\ polls' = [polls EXCEPT ![c] = 0]
  /\ result' = [result EXCEPT ![c] = "none"]
  /\ log' = [log EXCEPT ![c] = <<>>]
  /\ Goto(c, "ping_idle")
  /\ rt' = NoRT
  /\ UNCHANGED hw
  /\ UNCHANGED <<modes, scanv, nacked, raced, txn>>

\* Mutant of ping_IdleWait: ping does not wait for the bus to be idle.
ping_IdleWait_Skipped(c) ==
  /\ pc[c] = "ping_idle"
  /\ Goto(c, "ping_start")
  /\ Emit(c, "IDLE", 0)
  /\ UNCHANGED <<rt, modes, scanv, nacked, raced, txn, hw, args, buf, timeout,
                 cbyte, ret_sta, result, polls>>

ping_IdleWait(c) ==
  /\ pc[c] = "ping_idle"
  /\ IdleWait(c, "ping_start")

ping_Start(c) ==
  /\ pc[c] = "ping_start"
  /\ SendStart(c, "ping_sb")

ping_WaitSB(c) ==
  /\ pc[c] = "ping_sb"
  /\ WaitFor(c, "MASTER_MODE_SELECT", "ping_addr")

\* Mutant of ping_SendAddr: the driver shifts the address itself.
ping_SendAddr_Shifts(c) ==
  /\ pc[c] = "ping_addr"
  /\ SendAddr(c, "ADDR_W", BitAnd((2 * addr[c]) % 256, 254), "ping_ack")

ping_SendAddr(c) ==
  /\ pc[c] = "ping_addr"
  /\ SendAddr(c, "ADDR_W", BitAnd(addr[c], 254), "ping_ack")

\* Mutant of ping_WaitAddr: an exhausted wait returns at once, as in i2c_read.
ping_WaitAddr_ReturnsOnNack(c) ==
  /\ pc[c] = "ping_ack"
  /\ WaitAck(c, "MASTER_TRANSMITTER_MODE_SELECTED", "ping_stop")

\* while(!i2c_status(I2C_EVENT_MASTER_TRANSMITTER_MODE_SELECTED)) {
\*     if(--timeout < 0) { ret_sta = I2C_ERR_NACK; break; } }
ping_WaitAddr(c) ==
  /\ pc[c] = "ping_ack"
  /\ polls' = [polls EXCEPT ![c] = @ + 1]
  /\ \E s \in i2c_status("MASTER_TRANSMITTER_MODE_SELECTED") :
       IF s
       THEN /\ Goto(c, "ping_stop")
            /\ Emit(c, "MASTER_TRANSMITTER_MODE_SELECTED", 0)
            /\ UNCHANGED <<timeout, ret_sta>>
       ELSE /\ timeout' = [timeout EXCEPT ![c] = @ - 1]
            /\ IF timeout[c] - 1 < 0
               THEN /\ ret_sta' = [ret_sta EXCEPT ![c] = "I2C_ERR_NACK"]
                    /\ Goto(c, "ping_stop")
               ELSE UNCHANGED <<pc, ret_sta>>
            /\ UNCHANGED log
  /\ UNCHANGED <<rt, modes, scanv, nacked, raced, txn, hw, args, buf, cbyte, result>>

ping_Stop(c) ==
  /\ pc[c] = "ping_stop"
  /\ SendStop(c, ret_sta[c])

(* ----------------------------------------------------------- i2c_scan --- *)

\* uint8_t real_addr = addr << 1;
RealAddr(a) == (2 * a) % 256

\* i2c_scan entered: for(uint8_t addr = 0x00; ...
scan_Call(c) ==
  /\ pc[c] = "idle"
  /\ CanCall(c)
  /\ op' = [op EXCEPT ![c] = "scan"]
  /\ inscan' = [inscan EXCEPT ![c] = TRUE]
  /\ scan_addr' = [scan_addr EXCEPT ![c] = 0]
  /\ pinged' = [pinged EXCEPT ![c] = <<>>]
  /\ reported' = [reported EXCEPT ![c] = <<>>]
  /\ Goto(c, "scan_loop")
  /\ UNCHANGED <<hw, modes, nacked, raced, txn, rt, addr, reg, len, buf, timeout,
                 cbyte, ret_sta, result, polls, log>>

\* The loop test and an iteration's call, or the return:
ScanStep(c, end) ==
  IF scan_addr[c] < end
  THEN /\ op' = [op EXCEPT ![c] = "ping"]
       /\ addr' = [addr EXCEPT ![c] = RealAddr(scan_addr[c])]
       /\ pinged' = [pinged EXCEPT ![c] = Append(@, scan_addr[c])]
       /\ ret_sta' = [ret_sta EXCEPT ![c] = "I2C_OK"]
       /\ timeout' = [timeout EXCEPT ![c] = I2C_TIMEOUT]
       /\ polls' = [polls EXCEPT ![c] = 0]
       /\ result' = [result EXCEPT ![c] = "none"]
       /\ log' = [log EXCEPT ![c] = <<>>]
       /\ Goto(c, "ping_idle")
       /\ UNCHANGED inscan
  ELSE /\ op' = [op EXCEPT ![c] = "scan"]
       /\ inscan' = [inscan EXCEPT ![c] = FALSE]
       /\ result' = [result EXCEPT ![c] = "void"]
       /\ log' = [log EXCEPT ![c] = <<>>]
       /\ Goto(c, "done")
       /\ UNCHANGED <<addr, pinged, ret_sta, timeout, polls>>

\* Mutant of scan_Loop: the sweep runs to 0x7F inclusive.
scan_Loop_Inclusive(c) ==
  /\ pc[c] = "scan_loop"
  /\ ScanStep(c, ScanEnd + 1)
  /\ UNCHANGED <<hw, modes, nacked, raced, txn, rt, reg, len, buf, cbyte, scan_addr,
                 reported>>

\* addr < 0x7F; real_addr = addr << 1; i2c_ping(real_addr) entered, or
\* printf("--Done Scanning--\n") and the return.
scan_Loop(c) ==
  /\ pc[c] = "scan_loop"
  /\ ScanStep(c, ScanEnd)
  /\ UNCHANGED <<hw, modes, nacked, raced, txn, rt, reg, len, buf, cbyte, scan_addr,
                 reported>>

\* if(i2c_ping(real_addr) == I2C_OK) printf(..., real_addr); addr++
scan_Report(c) ==
  /\ pc[c] = "done"
  /\ inscan[c]
  /\ reported' = [reported EXCEPT ![c] =
                    IF result[c] = "I2C_OK"
                    THEN Append(@, RealAddr(scan_addr[c])) ELSE @]
  /\ scan_addr' = [scan_addr EXCEPT ![c] = (@ + 1) % 256]
  /\ Goto(c, "scan_loop")
  /\ UNCHANGED <<hw, modes, nacked, raced, txn, rt, args, buf, timeout, cbyte,
                 ret_sta, result, polls, log, inscan, pinged>>

(* ----------------------------------------------------------- i2c_read --- *)

read_Call(c) ==
  /\ pc[c] = "idle"
  /\ CanCall(c)
  /\ \E a \in AddrVals, r \in RegVals, n \in 0..MaxLen :
       /\ op' = [op EXCEPT ![c] = "read"]
       /\ addr' = [addr EXCEPT ![c] = a]
       /\ reg' = [reg EXCEPT ![c] = r]
       /\ len' = [len EXCEPT ![c] = n]
       /\ rt' = IF rt.on /\ a \div 2 = rt.addr \div 2 /\ r = rt.reg
                    /\ n = Len(rt.data)
                 THEN rt ELSE NoRT
  /\ buf' = [buf EXCEPT ![c] = FillBuf]
  /\ cbyte' = [cbyte EXCEPT ![c] = 0]
  /\ ret_sta' = [ret_sta EXCEPT ![c] = "I2C_OK"]
  /\ timeout' = [timeout EXCEPT ![c] = I2C_TIMEOUT]
  /\ polls' = [polls EXCEPT ![c] = 0]
  /\ result' = [result EXCEPT ![c] = "none"]
  /\ log' = [log EXCEPT ![c] = <<>>]
  /\ Goto(c, "read_idle")
  /\ UNCHANGED hw
  /\ UNCHANGED <<modes, scanv, nacked, raced, txn>>

read_IdleWait(c) ==
  /\ pc[c] = "read_idle"
  /\ IdleWait(c, "read_start")

read_Start(c) ==
  /\ pc[c] = "read_start"
  /\ SendStart(c, "read_sb")

read_WaitSB(c) ==
  /\ pc[c] = "read_sb"
  /\ WaitFor(c, "MASTER_MODE_SELECT", "read_addr")

\* Mutant of read_SendAddr: the address goes out unmasked.
read_SendAddr_Unmasked(c) ==
  /\ pc[c] = "read_addr"
  /\ SendAddr(c, "ADDR_W", addr[c], "read_ack")

read_SendAddr(c) ==
  /\ pc[c] = "read_addr"
  /\ SendAddr(c, "ADDR_W", BitAnd(addr[c], 254), "read_ack")

\* Mutant of read_WaitAddr: STOP is asserted before I2C_ERR_NACK is returned.
read_WaitAddr_StopsOnNack(c) ==
  /\ pc[c] = "read_ack"
  /\ polls' = [polls EXCEPT ![c] = @ + 1]
  /\ \E s \in i2c_status("MASTER_TRANSMITTER_MODE_SELECTED") :
       IF s
       THEN /\ Goto(c, "read_reg")
            /\ Emit(c, "MASTER_TRANSMITTER_MODE_SELECTED", 0)
            /\ UNCHANGED <<timeout, result, STAR2_BUSY, dev, mem, txn>>
       ELSE /\ timeout' = [timeout EXCEPT ![c] = @ - 1]
            /\ IF timeout[c] - 1 < 0
               THEN /\ HwStop
                    /\ Emit(c, "STOP", 0)
                    /\ Return(c, "I2C_ERR_NACK")
                    /\ txn' = <<>>
               ELSE UNCHANGED <<pc, result, log, STAR2_BUSY, dev, mem, txn>>
  /\ UNCHANGED <<rt, modes, scanv, nacked, raced, sim, CTLR1_ACK, args, buf, cbyte,
                 ret_sta>>

read_WaitAddr(c) ==
  /\ pc[c] = "read_ack"
  /\ WaitAck(c, "MASTER_TRANSMITTER_MODE_SELECTED", "read_reg")

read_SendReg(c) ==
  /\ pc[c] = "read_reg"
  /\ SendReg(c, "read_txe")

read_WaitTXE(c) ==
  /\ pc[c] = "read_txe"
  /\ WaitFor(c, "TXE", "read_acken")

\* Mutant of read_AckEnable: ACK is enabled for a single byte too.
read_AckEnable_FromOne(c) ==
  /\ pc[c] = "read_acken"
  /\ IF len[c] >= 1
     THEN CTLR1_ACK' = TRUE /\ Emit(c, "ACK_SET", 0)
     ELSE UNCHANGED <<CTLR1_ACK, log>>
  /\ Goto(c, "read_restart")
  /\ UNCHANGED <<rt, modes, scanv, nacked, raced, txn, sim, STAR2_BUSY, dev, mem, args, buf, timeout, cbyte,
                 ret_sta, result, polls>>

\* if(len > 1) I2C1->CTLR1 |= I2C_CTLR1_ACK;
read_AckEnable(c) ==
  /\ pc[c] = "read_acken"
  /\ IF len[c] > 1
     THEN CTLR1_ACK' = TRUE /\ Emit(c, "ACK_SET", 0)
     ELSE UNCHANGED <<CTLR1_ACK, log>>
  /\ Goto(c, "read_restart")
  /\ UNCHANGED <<rt, modes, scanv, nacked, raced, txn, sim, STAR2_BUSY, dev, mem, args, buf, timeout, cbyte, ret_sta,
                 result, polls>>

\* Mutant of read_RepStart: no repeated START is asserted.
read_RepStart_Skipped(c) ==
  /\ pc[c] = "read_restart"
  /\ Goto(c, "read_sb2")
  /\ UNCHANGED <<rt, modes, scanv, nacked, raced, txn, hw, args, buf, timeout, cbyte,
                 ret_sta, result, polls, log>>

read_RepStart(c) ==
  /\ pc[c] = "read_restart"
  /\ SendStart(c, "read_sb2")

read_WaitSB2(c) ==
  /\ pc[c] = "read_sb2"
  /\ WaitFor(c, "MASTER_MODE_SELECT", "read_raddr")

read_SendReadAddr(c) ==
  /\ pc[c] = "read_raddr"
  /\ SendAddr(c, "ADDR_R", BitOr(addr[c], 1), "read_rack")

\* Mutant of read_WaitRecv: the expired wait returns I2C_ERR_TIMEOUT.
read_WaitRecv_ReportsTimeout(c) ==
  /\ pc[c] = "read_rack"
  /\ polls' = [polls EXCEPT ![c] = @ + 1]
  /\ \E s \in i2c_status("MASTER_RECEIVER_MODE_SELECTED") :
       IF s
       THEN /\ Goto(c, "read_init")
            /\ Emit(c, "MASTER_RECEIVER_MODE_SELECTED", 0)
            /\ UNCHANGED <<timeout, result>>
       ELSE /\ timeout' = [timeout EXCEPT ![c] = @ - 1]
            /\ IF timeout[c] - 1 < 0
               THEN Return(c, "I2C_ERR_TIMEOUT")
               ELSE UNCHANGED <<pc, result>>
            /\ UNCHANGED log
  /\ UNCHANGED <<rt, modes, scanv, nacked, raced, txn, hw, args, buf, cbyte, ret_sta>>

read_WaitRecv(c) ==
  /\ pc[c] = "read_rack"
  /\ WaitAck(c, "MASTER_RECEIVER_MODE_SELECTED", "read_init")

read_Init(c) ==
  /\ pc[c] = "read_init"
  /\ InitCbyte(c, "read_loop")

\* Mutant of read_Loop: the loop test is cbyte <= len.
read_Loop_Inclusive(c) ==
  /\ pc[c] = "read_loop"
  /\ Goto(c, IF cbyte[c] <= len[c] THEN "read_nack" ELSE "read_stop")
  /\ UNCHANGED <<rt, modes, scanv, nacked, raced, txn, hw, args, buf, timeout,
                 cbyte, ret_sta, result, polls, log>>

read_Loop(c) ==
  /\ pc[c] = "read_loop"
  /\ LoopTest(c, "read_nack", "read_stop")

\* if(cbyte == len) I2C1->CTLR1 &= ~I2C_CTLR1_ACK;
\* Mutant of read_NackCheck: the test is for the last byte, cbyte == len - 1.
read_NackCheck_LastByte(c) ==
  /\ pc[c] = "read_nack"
  /\ IF cbyte[c] = len[c] - 1
     THEN CTLR1_ACK' = FALSE /\ Emit(c, "ACK_CLEAR", 0)
     ELSE UNCHANGED <<CTLR1_ACK, log>>
  /\ Goto(c, "read_rxne")
  /\ UNCHANGED <<rt, modes, scanv, nacked, raced, txn, sim, STAR2_BUSY, dev, mem, args,
                 buf, timeout, cbyte, ret_sta, result, polls>>

read_NackCheck(c) ==
  /\ pc[c] = "read_nack"
  /\ IF cbyte[c] = len[c]
     THEN CTLR1_ACK' = FALSE /\ Emit(c, "ACK_CLEAR", 0)
     ELSE UNCHANGED <<CTLR1_ACK, log>>
  /\ Goto(c, "read_rxne")
  /\ UNCHANGED <<rt, modes, scanv, nacked, raced, txn, sim, STAR2_BUSY, dev, mem, args, buf, timeout, cbyte, ret_sta,
                 result, polls>>

read_WaitRXNE(c) ==
  /\ pc[c] = "read_rxne"
  /\ WaitFor(c, "RXNE", "read_store")

\* Mutant of read_Store: the buffer is filled from its far end.
read_Store_Reversed(c) ==
  /\ pc[c] = "read_store"
  /\ \E v \in DatarVals :
       /\ buf' = [buf EXCEPT ![c][len[c] - cbyte[c]] = v]
       /\ Emit(c, "DATA_R", v)
  /\ HwRead
  /\ cbyte' = [cbyte EXCEPT ![c] = (@ + 1) % 256]
  /\ Goto(c, "read_loop")
  /\ UNCHANGED <<rt, modes, scanv, nacked, raced, txn, sim, CTLR1_ACK, args, timeout, ret_sta, result, polls>>

\* buf[cbyte] = I2C1->DATAR; ++cbyte;
read_Store(c) ==
  /\ pc[c] = "read_store"
  /\ \E v \in DatarVals :
       /\ buf' = [buf EXCEPT ![c][cbyte[c] + 1] = v]
       /\ Emit(c, "DATA_R", v)
  /\ HwRead
  /\ cbyte' = [cbyte EXCEPT ![c] = (@ + 1) % 256]
  /\ Goto(c, "read_loop")
  /\ UNCHANGED <<rt, modes, scanv, nacked, raced, txn, sim, CTLR1_ACK, args, timeout, ret_sta, result, polls>>

read_Stop(c) ==
  /\ pc[c] = "read_stop"
  /\ SendStop(c, "I2C_OK")

(* ---------------------------------------------------------- i2c_write --- *)

write_Call(c) ==
  /\ pc[c] = "idle"
  /\ CanCall(c)
  /\ \E a \in AddrVals, r \in RegVals, n \in 0..MaxLen, s \in BufSeeds :
       /\ op' = [op EXCEPT ![c] = "write"]
       /\ addr' = [addr EXCEPT ![c] = a]
       /\ reg' = [reg EXCEPT ![c] = r]
       /\ len' = [len EXCEPT ![c] = n]
       /\ buf' = [buf EXCEPT ![c] = Pattern(s)]
  /\ cbyte' = [cbyte EXCEPT ![c] = 0]
  /\ ret_sta' = [ret_sta EXCEPT ![c] = "I2C_OK"]
  /\ timeout' = [timeout EXCEPT ![c] = I2C_TIMEOUT]
  /\ polls' = [polls EXCEPT ![c] = 0]
  /\ result' = [result EXCEPT ![c] = "none"]
  /\ log' = [log EXCEPT ![c] = <<>>]
  /\ Goto(c, "write_idle")
  /\ rt' = NoRT
  /\ UNCHANGED hw
  /\ UNCHANGED <<modes, scanv, nacked, raced, txn>>

write_IdleWait(c) ==
  /\ pc[c] = "write_idle"
  /\ IdleWait(c, "write_start")

write_Start(c) ==
  /\ pc[c] = "write_start"
  /\ SendStart(c, "write_sb")

write_WaitSB(c) ==
  /\ pc[c] = "write_sb"
  /\ WaitFor(c, "MASTER_MODE_SELECT", "write_addr")

write_SendAddr(c) ==
  /\ pc[c] = "write_addr"
  /\ SendAddr(c, "ADDR_W", BitAnd(addr[c], 254), "write_ack")

\* Mutant of write_WaitAddr: STOP is asserted before I2C_ERR_NACK is returned.
write_WaitAddr_StopsOnNack(c) ==
  /\ pc[c] = "write_ack"
  /\ polls' = [polls EXCEPT ![c] = @ + 1]
  /\ \E s \in i2c_status("MASTER_TRANSMITTER_MODE_SELECTED") :
       IF s
       THEN /\ Goto(c, "write_reg")
            /\ Emit(c, "MASTER_TRANSMITTER_MODE_SELECTED", 0)
            /\ UNCHANGED <<timeout, result, STAR2_BUSY, dev, mem, txn>>
       ELSE /\ timeout' = [timeout EXCEPT ![c] = @ - 1]
            /\ IF timeout[c] - 1 < 0
               THEN /\ HwStop
                    /\ Emit(c, "STOP", 0)
                    /\ Return(c, "I2C_ERR_NACK")
                    /\ txn' = <<>>
               ELSE UNCHANGED <<pc, result, log, STAR2_BUSY, dev, mem, txn>>
  /\ UNCHANGED <<rt, modes, scanv, nacked, raced, sim, CTLR1_ACK, args, buf, cbyte,
                 ret_sta>>

write_WaitAddr(c) ==
  /\ pc[c] = "write_ack"
  /\ WaitAck(c, "MASTER_TRANSMITTER_MODE_SELECTED", "write_reg")

write_SendReg(c) ==
  /\ pc[c] = "write_reg"
  /\ SendReg(c, "write_txe")

write_WaitTXE(c) ==
  /\ pc[c] = "write_txe"
  /\ WaitFor(c, "TXE", "write_init")

write_Init(c) ==
  /\ pc[c] = "write_init"
  /\ InitCbyte(c, "write_loop")

\* Mutant of write_Loop: the loop test is cbyte <= len.
write_Loop_Inclusive(c) ==
  /\ pc[c] = "write_loop"
  /\ Goto(c, IF cbyte[c] <= len[c] THEN "write_txe2" ELSE "write_btf")
  /\ UNCHANGED <<rt, modes, scanv, nacked, raced, txn, hw, args, buf, timeout, cbyte,
                 ret_sta, result, polls, log>>

write_Loop(c) ==
  /\ pc[c] = "write_loop"
  /\ LoopTest(c, "write_txe2", "write_btf")

write_WaitTXE2(c) ==
  /\ pc[c] = "write_txe2"
  /\ WaitFor(c, "TXE", "write_data")

\* Mutant of write_Data: the buffer is sent from its far end.
write_Data_Reversed(c) ==
  /\ pc[c] = "write_data"
  /\ HwWrite(buf[c][len[c] - cbyte[c]])
  /\ Emit(c, "DATA_W", buf[c][len[c] - cbyte[c]])
  /\ cbyte' = [cbyte EXCEPT ![c] = (@ + 1) % 256]
  /\ Goto(c, "write_loop")
  /\ TxnWrite(c)
  /\ UNCHANGED <<rt, modes, scanv, nacked, raced, sim, CTLR1_ACK, args, buf, timeout, ret_sta, result, polls>>

\* I2C1->DATAR = buf[cbyte]; ++cbyte;
write_Data(c) ==
  /\ pc[c] = "write_data"
  /\ HwWrite(buf[c][cbyte[c] + 1])
  /\ Emit(c, "DATA_W", buf[c][cbyte[c] + 1])
  /\ cbyte' = [cbyte EXCEPT ![c] = (@ + 1) % 256]
  /\ Goto(c, "write_loop")
  /\ TxnWrite(c)
  /\ UNCHANGED <<rt, modes, scanv, nacked, raced, sim, CTLR1_ACK, args, buf, timeout, ret_sta, result, polls>>

\* Mutant of write_WaitBTF: STOP follows without waiting for the event.
write_WaitBTF_Skipped(c) ==
  /\ pc[c] = "write_btf"
  /\ Goto(c, "write_stop")
  /\ UNCHANGED <<rt, modes, scanv, nacked, raced, txn, hw, args, buf, timeout, cbyte, ret_sta, result, polls, log>>

write_WaitBTF(c) ==
  /\ pc[c] = "write_btf"
  /\ WaitFor(c, "MASTER_BYTE_TRANSMITTED", "write_stop")

write_Stop(c) ==
  /\ pc[c] = "write_stop"
  /\ SendStop(c, "I2C_OK")

(* ------------------------------------------------------------- caller --- *)

\* The caller takes the returned value; its next call starts afresh.
caller_Resume(c) ==
  /\ pc[c] = "done"
  /\ ~inscan[c]
  /\ pc' = [pc EXCEPT ![c] = "idle"]
  /\ op' = [op EXCEPT ![c] = "none"]
  /\ addr' = [addr EXCEPT ![c] = 0]
  /\ reg' = [reg EXCEPT ![c] = 0]
  /\ len' = [len EXCEPT ![c] = 0]
  /\ buf' = [buf EXCEPT ![c] = FillBuf]
  /\ timeout' = [timeout EXCEPT ![c] = 0]
  /\ cbyte' = [cbyte EXCEPT ![c] = 0]
  /\ ret_sta' = [ret_sta EXCEPT ![c] = "I2C_OK"]
  /\ result' = [result EXCEPT ![c] = "none"]
  /\ polls' = [polls EXCEPT ![c] = 0]
  /\ log' = [log EXCEPT ![c] = <<>>]
  /\ rt' = IF op[c] = "read" THEN NoRT ELSE rt
  /\ UNCHANGED hw
  /\ nacked' = (nacked \/ (op[c] \in {"read", "write"}
                             /\ result[c] = "I2C_ERR_NACK"))
  /\ UNCHANGED <<modes, scanv, txn, raced>>

(* ------------------------------------------------------ specification --- *)

InitCaller ==
  /\ op = [c \in Callers |-> "none"]
  /\ addr = [c \in Callers |-> 0]
  /\ reg = [c \in Callers |-> 0]
  /\ len = [c \in Callers |-> 0]
  /\ buf = [c \in Callers |-> FillBuf]
  /\ timeout = [c \in Callers |-> 0]
  /\ cbyte = [c \in Callers |-> 0]
  /\ ret_sta = [c \in Callers |-> "I2C_OK"]
  /\ result = [c \in Callers |-> "none"]
  /\ polls = [c \in Callers |-> 0]
  /\ log = [c \in Callers |-> <<>>]
  /\ nacked = FALSE
  /\ raced = FALSE
  /\ txn = <<>>
  /\ inscan = [c \in Callers |-> FALSE]
  /\ scan_addr = [c \in Callers |-> 0]
  /\ pinged = [c \in Callers |-> <<>>]
  /\ reported = [c \in Callers |-> <<>>]

InitHw ==
  /\ STAR2_BUSY = FALSE
  /\ CTLR1_ACK = FALSE
  /\ dev = [phase |-> "idle", ptr |-> 0, cnt |-> 0]
  /\ mem = [r \in RegVals |-> <<>>]

\* One caller, after i2c_init, on an unconstrained peripheral.
Init ==
  /\ sim = FALSE
  /\ busflag = FALSE
  /\ excl = FALSE
  /\ InitHw
  /\ InitCaller
  /\ rt = NoRT
  /\ pc = [c \in Callers |-> IF c = 1 THEN "idle" ELSE "off"]

\* One caller, after i2c_init, on the simulated bus and device.
InitSim ==
  /\ sim = TRUE
  /\ busflag = TRUE
  /\ excl = FALSE
  /\ InitHw
  /\ InitCaller
  /\ rt = NoRT
  /\ pc = [c \in Callers |-> IF c = 1 THEN "idle" ELSE "off"]

Next ==
  \E c \in Callers :
    \/ ping_Call(c)
    \/ ping_IdleWait(c)
    \/ ping_Start(c)
    \/ ping_WaitSB(c)
    \/ ping_SendAddr(c)
    \/ ping_WaitAddr(c)
    \/ ping_Stop(c)
    \/ read_Call(c)
    \/ read_IdleWait(c)
    \/ read_Start(c)
    \/ read_WaitSB(c)
    \/ read_SendAddr(c)
    \/ read_WaitAddr(c)
    \/ read_SendReg(c)
    \/ read_WaitTXE(c)
    \/ read_AckEnable(c)
    \/ read_RepStart(c)
    \/ read_WaitSB2(c)
    \/ read_SendReadAddr(c)
    \/ read_WaitRecv(c)
    \/ read_Init(c)
    \/ read_Loop(c)
    \/ read_NackCheck(c)
    \/ read_WaitRXNE(c)
    \/ read_Store(c)
    \/ read_Stop(c)
    \/ write_Call(c)
    \/ write_IdleWait(c)
    \/ write_Start(c)
    \/ write_WaitSB(c)
    \/ write_SendAddr(c)
    \/ write_WaitAddr(c)
    \/ write_SendReg(c)
    \/ write_WaitTXE(c)
    \/ write_Init(c)
    \/ write_Loop(c)
    \/ write_WaitTXE2(c)
    \/ write_Data(c)
    \/ write_WaitBTF(c)
    \/ write_Stop(c)
    \/ caller_Resume(c)

Spec == Init /\ [][Next]_vars

\* A call of ping, read or write is under way.
InCall(c) == pc[c] \notin {"idle", "done", "off"}

\* A call under way keeps taking steps, and a wait without a budget does not
\* poll a false status for ever: a poll that finds the event not reported
\* changes nothing, so fairness of the steps that change the state is the
\* hardware eventually reporting the event.
SpecLive == Init /\ [][Next]_vars /\ \A c \in Callers : WF_vars(InCall(c) /\ Next)

\* Two callers of the one peripheral, whose busy flag START sets and STOP
\* clears: one makes a call of write, the other calls ping again and again,
\* with or without serialization.
Writer == CHOOSE c \in Callers : TRUE
Pinger == CHOOSE c \in Callers : c # Writer

InitTwo ==
  /\ sim = FALSE
  /\ busflag = TRUE
  /\ excl \in BOOLEAN
  /\ InitHw
  /\ InitCaller
  /\ rt = NoRT
  /\ pc = [c \in Callers |-> "idle"]

NextTwo ==
  \/ \E c \in {Writer} :
       \/ write_Call(c)
       \/ write_IdleWait(c)
       \/ write_Start(c)
       \/ write_WaitSB(c)
       \/ write_SendAddr(c)
       \/ write_WaitAddr(c)
       \/ write_SendReg(c)
       \/ write_WaitTXE(c)
       \/ write_Init(c)
       \/ write_Loop(c)
       \/ write_WaitTXE2(c)
       \/ write_Data(c)
       \/ write_WaitBTF(c)
       \/ write_Stop(c)
  \/ \E c \in {Pinger} :
       \/ ping_Call(c)
       \/ ping_IdleWait(c)
       \/ ping_Start(c)
       \/ ping_WaitSB(c)
       \/ ping_SendAddr(c)
       \/ ping_WaitAddr(c)
       \/ ping_Stop(c)
  \/ \E c \in {Pinger} : caller_Resume(c)

SpecTwo == InitTwo /\ [][NextTwo]_vars

\* One caller running i2c_scan on the simulated bus and device.
NextScan ==
  \E c \in Callers :
    \/ scan_Call(c)
    \/ scan_Loop(c)
    \/ ping_IdleWait(c)
    \/ ping_Start(c)
    \/ ping_WaitSB(c)
    \/ ping_SendAddr(c)
    \/ ping_WaitAddr(c)
    \/ ping_Stop(c)
    \/ scan_Report(c)
    \/ caller_Resume(c)

SpecScan == InitSim /\ [][NextScan]_vars

SpecSim == InitSim /\ [][Next]_vars

(* ------------------------------------------------- reading the log --- *)

\* The places in caller c's log where event e stands.
At(c, e) == {i \in DOMAIN log[c] : log[c][i].e = e}
Count(c, e) == Cardinality(At(c, e))
Starts(c) == Count(c, "START")
Stops(c) == Count(c, "STOP")
\* The places where the driver wrote or read the data register.
DatarWrites(c) == {i \in DOMAIN log[c] :
                     log[c][i].e \in {"ADDR_W", "ADDR_R", "REG", "DATA_W"}}
IsData(ev) == ev.e = "DATA_R"
Received(c) == SelectSeq(log[c], IsData)
Returned(c) == pc[c] = "done"
Failed(c) == result[c] \in {"I2C_ERR_NACK", "I2C_ERR_TIMEOUT"}
LastIsStop(c) == log[c] # <<>> /\ log[c][Len(log[c])].e = "STOP"

(* ------------------------------------------------------------ claims --- *)

\* C1 as stated: every return of ping, whatever its result, comes after
\* exactly one START and exactly one STOP.
C1_PingOneStartOneStop ==
  \A c \in Callers :
    Returned(c) /\ op[c] = "ping" => Starts(c) = 1 /\ Stops(c) = 1

\* C1 amended: a ping that returns Ok or NoAck has asserted START exactly
\* once and then STOP exactly once; a ping that returns Timeout has asserted
\* neither; no ping asserts either more than once.
C1_PingStartStopByResult ==
  \A c \in Callers :
    op[c] = "ping" =>
      /\ Starts(c) <= 1 /\ Stops(c) <= 1
      /\ Returned(c) /\ result[c] \in {"I2C_OK", "I2C_ERR_NACK"} =>
           /\ Starts(c) = 1 /\ Stops(c) = 1
           /\ \A i \in At(c, "START"), j \in At(c, "STOP") : i < j
      /\ Returned(c) /\ result[c] = "I2C_ERR_TIMEOUT" =>
           Starts(c) = 0 /\ Stops(c) = 0

C1_Witness ==
  \E c \in Callers :
    /\ Returned(c) /\ op[c] = "ping" /\ result[c] = "I2C_ERR_NACK"
    /\ Starts(c) = 1 /\ Stops(c) = 1

\* C2: an operation whose idle wait saw the bus busy at every poll has
\* asserted no START, and when it returns it returns Timeout.
C2_BusyNeverStarts ==
  \A c \in Callers :
    op[c] \in {"ping", "read", "write"} /\ At(c, "IDLE") = {} =>
      /\ Starts(c) = 0
      /\ Returned(c) => result[c] = "I2C_ERR_TIMEOUT"

C2_Witness ==
  \E c \in Callers :
    /\ Returned(c) /\ op[c] = "write" /\ At(c, "IDLE") = {}
    /\ polls[c] = I2C_TIMEOUT + 1
    /\ result[c] = "I2C_ERR_TIMEOUT"

\* C3 as stated: no failed operation returns with a started transaction
\* left open (a failure return after a START comes after a STOP), and a
\* return with Ok has STOP as the last bus action.
C3_NoOpenTransactionOnReturn ==
  \A c \in Callers :
    Returned(c) =>
      /\ Failed(c) /\ Starts(c) > 0 => Stops(c) > 0
      /\ result[c] = "I2C_OK" => LastIsStop(c)

\* C4: a read that returns Ok has taken exactly len bytes from the data
\* register, buf[i] is the i-th byte taken, and each byte was taken right
\* after receive-register-not-empty was observed.
C4_ReadFillsInOrder ==
  \A c \in Callers :
    op[c] = "read" =>
      /\ \A i \in At(c, "DATA_R") : i > 1 /\ log[c][i - 1].e = "RXNE"
      /\ Returned(c) /\ result[c] = "I2C_OK" =>
           /\ Len(Received(c)) = len[c]
           /\ \A i \in 1..len[c] : buf[c][i] = Received(c)[i].v

C4_Witness ==
  \E c \in Callers :
    /\ Returned(c) /\ op[c] = "read" /\ result[c] = "I2C_OK"
    /\ len[c] = MaxLen
    /\ buf[c][1] # buf[c][2]

\* C5: on the simulated device, a write of B to register r that returned
\* Ok, followed at once by a read of |B| bytes from r at the same device,
\* makes the read return Ok with the buffer holding exactly B; and a write
\* or read addressed to the device on an idle bus returns Ok.
C5_RoundTrip ==
  \A c \in Callers :
    sim /\ Returned(c) =>
      /\ op[c] \in {"read", "write"} /\ addr[c] \div 2 = DevAddr
           /\ At(c, "IDLE") # {} => result[c] = "I2C_OK"
      /\ op[c] = "read" /\ rt.on =>
           /\ result[c] = "I2C_OK"
           /\ SubSeq(buf[c], 1, len[c]) = rt.data

C5_Witness ==
  \E c \in Callers :
    /\ sim /\ Returned(c) /\ op[c] = "read" /\ rt.on
    /\ rt.reg = 16 /\ rt.data = <<1, 2, 3>>
    /\ result[c] = "I2C_OK"

\* C6 as stated: a ping that returns NoAck has polled the
\* address-acknowledge event exactly I2C_TIMEOUT times.
C6_NackAfterTimeoutPolls ==
  \A c \in Callers :
    Returned(c) /\ op[c] = "ping" /\ result[c] = "I2C_ERR_NACK" =>
      polls[c] = I2C_TIMEOUT

\* C7: every write-direction address byte on the data register has bit 0
\* clear and every read-direction address byte has bit 0 set, and both
\* carry bits 7..1 of the caller's address byte, whatever its bit 0.
C7_AddressDirectionBit ==
  \A c \in Callers :
    /\ \A i \in At(c, "ADDR_W") :
         /\ log[c][i].v % 2 = 0
         /\ log[c][i].v \div 2 = addr[c] \div 2
    /\ \A i \in At(c, "ADDR_R") :
         /\ log[c][i].v % 2 = 1
         /\ log[c][i].v \div 2 = addr[c] \div 2

C7_Witness ==
  \E c \in Callers :
    /\ op[c] = "read" /\ addr[c] % 2 = 1
    /\ At(c, "ADDR_W") # {} /\ At(c, "ADDR_R") # {}

\* C8 as stated: a 7-bit device address d in 0..0x7F passed to an
\* operation goes on the wire as (d << 1) | direction.
C8_ShiftedOnWire ==
  \A c \in Callers :
    addr[c] \in 0..127 =>
      /\ \A i \in At(c, "ADDR_W") : log[c][i].v = 2 * addr[c]
      /\ \A i \in At(c, "ADDR_R") : log[c][i].v = 2 * addr[c] + 1

\* C8 amended: the operations take the address already shifted; for a 7-bit
\* device address d passed as the byte d << 1, the wire carries (d << 1) | 0
\* in the write direction and (d << 1) | 1 in the read direction.
C8_PreShiftedOnWire ==
  \A c \in Callers : \A d \in 0..127 :
    addr[c] = 2 * d =>
      /\ \A i \in At(c, "ADDR_W") : log[c][i].v = 2 * d
      /\ \A i \in At(c, "ADDR_R") : log[c][i].v = 2 * d + 1

C8_Witness ==
  \E c \in Callers :
    /\ op[c] = "read" /\ addr[c] = 2 * DevAddr
    /\ At(c, "ADDR_W") # {} /\ At(c, "ADDR_R") # {}

\* C9: a read of length 1 never sets the ACK control bit; a read of length
\* greater than 1 has set it before it asserts the repeated START.
C9_AckEnableByLength ==
  \A c \in Callers :
    op[c] = "read" =>
      /\ len[c] <= 1 => At(c, "ACK_SET") = {}
      /\ len[c] > 1 /\ Starts(c) >= 2 =>
           /\ CTLR1_ACK
           /\ \E a \in At(c, "ACK_SET") :
                \E i \in At(c, "START") : \E j \in At(c, "START") :
                  i < a /\ a < j

C9_Witness ==
  \E c \in Callers :
    /\ Returned(c) /\ op[c] = "read" /\ len[c] = 1
    /\ result[c] = "I2C_OK" /\ ~CTLR1_ACK

\* C10: in a write, STOP comes right after byte-fully-transmitted was
\* observed, which comes after the last write of the data register; by then
\* all len data bytes have been written, each right after
\* transmit-register-empty was observed.
C10_StopAfterByteTransmitted ==
  \A c \in Callers :
    op[c] = "write" =>
      /\ \A i \in At(c, "DATA_W") : i > 1 /\ log[c][i - 1].e = "TXE"
      /\ \A i \in At(c, "STOP") :
           /\ i > 1 /\ log[c][i - 1].e = "MASTER_BYTE_TRANSMITTED"
           /\ \A j \in DatarWrites(c) : j < i - 1
           /\ Count(c, "DATA_W") = len[c]

C10_Witness ==
  \E c \in Callers :
    /\ Returned(c) /\ op[c] = "write" /\ result[c] = "I2C_OK"
    /\ len[c] = MaxLen /\ Stops(c) = 1

\* The candidates 0, 1, .., n-1 in ascending order.
Ascending(n) == [i \in 1..n |-> i - 1]
Range(q) == {q[i] : i \in DOMAIN q}

\* C11 as stated: scan pings the 127 candidates 0..0x7E once each in
\* ascending order, and where only the device 0x42 acknowledges the
\* addresses it reports are exactly {0x42}.
C11_ScanReportsDeviceAddress ==
  \A c \in Callers :
    Returned(c) /\ op[c] = "scan" =>
      /\ pinged[c] = Ascending(127)
      /\ Range(reported[c]) = {DevAddr}

\* C11 amended: scan pings the 127 candidates 0..0x7E once each in ascending
\* order, never 0x7F, each as the byte candidate << 1; where only the device
\* 0x42 acknowledges it reports exactly one address, the shifted byte 0x84.
C11_ScanReportsShiftedAddress ==
  \A c \in Callers :
    /\ Len(pinged[c]) <= 127
    /\ pinged[c] = Ascending(Len(pinged[c]))
    /\ inscan[c] /\ op[c] = "ping" =>
         addr[c] = 2 * pinged[c][Len(pinged[c])]
    /\ Returned(c) /\ op[c] = "scan" =>
         /\ pinged[c] = Ascending(127)
         /\ reported[c] = <<2 * DevAddr>>

C11_Witness ==
  \E c \in Callers :
    /\ Returned(c) /\ op[c] = "scan"
    /\ Len(pinged[c]) = 127 /\ reported[c] = <<132>>

Results == {"I2C_OK", "I2C_ERR_NACK", "I2C_ERR_TIMEOUT"}

\* C12: with every event waited on without a budget eventually reported,
\* every call of ping, read and write under way eventually returns, and what
\* it returns is one of Ok, NoAck, Timeout, whatever the busy flag and the
\* acknowledge status read.
C12_EveryCallReturns ==
  \A c \in Callers :
    /\ [](Returned(c) => result[c] \in Results)
    /\ InCall(c) ~> Returned(c)

\* A read that found no acknowledge at its read-address phase has returned,
\* after passing both start-condition waits and the transmit-empty wait.
C12_Witness ==
  \E c \in Callers :
    /\ Returned(c) /\ op[c] = "read" /\ result[c] = "I2C_ERR_NACK"
    /\ Count(c, "MASTER_MODE_SELECT") = 2 /\ Count(c, "TXE") = 1

\* C13: read returning NoAck has asserted no STOP, after one START when the
\* write-address phase was not acknowledged and after two STARTs (initial and
\* repeated) when the read-address phase was not; write returning NoAck has
\* asserted one START and no STOP.
C13_NackLeavesNoStop ==
  \A c \in Callers :
    Returned(c) /\ result[c] = "I2C_ERR_NACK" /\ op[c] \in {"read", "write"} =>
      /\ Stops(c) = 0
      /\ Starts(c) = IF Count(c, "ADDR_R") = 1 THEN 2 ELSE 1
      /\ op[c] = "write" => Count(c, "ADDR_R") = 0
      /\ Count(c, "ADDR_R") = 0 =>
           Count(c, "ADDR_W") = 1 /\ Count(c, "REG") = 0
      /\ Count(c, "ADDR_R") = 1 => Count(c, "REG") = 1

\* All three NoAck returns have happened: this state is one of them, and it
\* is a read not acknowledged at its read-address phase.
C13_Witness ==
  \E c \in Callers :
    /\ Returned(c) /\ result[c] = "I2C_ERR_NACK" /\ op[c] = "read"
    /\ Starts(c) = 2 /\ Stops(c) = 0

\* C14: where the busy flag is set by START and cleared only by STOP, a read
\* or write that has returned NoAck leaves the bus busy, and from then on the
\* bus is busy in every state and every call of ping, read or write asserts
\* neither START nor STOP and returns Timeout.
C14_BusStaysBusyAfterNack ==
  sim =>
    /\ \A c \in Callers :
         Returned(c) /\ op[c] \in {"read", "write"}
                     /\ result[c] = "I2C_ERR_NACK" => STAR2_BUSY
    /\ nacked =>
         /\ STAR2_BUSY
         /\ \A c \in Callers :
              /\ Starts(c) = 0 /\ Stops(c) = 0 /\ Count(c, "IDLE") = 0
              /\ Returned(c) => result[c] = "I2C_ERR_TIMEOUT"

\* After a NoAck return, calls of all three operations are under way or have
\* returned Timeout; this one is a read addressed to the device that is there.
C14_Witness ==
  \E c \in Callers :
    /\ sim /\ nacked /\ Returned(c) /\ result[c] = "I2C_ERR_TIMEOUT"
    /\ op[c] = "read" /\ addr[c] = 2 * DevAddr /\ len[c] > 0

IsBusAction(ev) ==
  ev.e \in {"IDLE", "START", "ADDR_W", "REG", "ACK_SET", "ACK_CLEAR", "ADDR_R",
            "DATA_R", "DATA_W", "STOP"}
Kinds(q) == [i \in DOMAIN q |-> q[i].e]
BusActions(c) == Kinds(SelectSeq(log[c], IsBusAction))
ReadOrder(n) ==
  <<"IDLE", "START", "ADDR_W", "REG">>
    \o (IF n > 1 THEN <<"ACK_SET">> ELSE <<>>)
    \o <<"START", "ADDR_R">>
    \o [i \in 1..n |-> "DATA_R"]
    \o <<"STOP">>

\* C16: a read that returns Ok has done exactly these bus actions in this
\* order: idle observed, START, write-direction address, register byte, ACK
\* enable when length > 1, repeated START, read-direction address, length
\* data reads, STOP; two STARTs, one STOP, and STOP last.
C16_ReadOrderOfBusActions ==
  \A c \in Callers :
    Returned(c) /\ op[c] = "read" /\ result[c] = "I2C_OK" =>
      /\ BusActions(c) = ReadOrder(len[c])
      /\ Starts(c) = 2 /\ Stops(c) = 1
      /\ LastIsStop(c)

C16_Witness ==
  \E c \in Callers :
    /\ Returned(c) /\ op[c] = "read" /\ result[c] = "I2C_OK"
    /\ len[c] = MaxLen /\ Count(c, "ACK_SET") = 1
    /\ Len(BusActions(c)) = MaxLen + 8

\* The bytes a call wrote to the data register, in order.
IsDatarWrite(ev) == ev.e \in {"ADDR_W", "ADDR_R", "REG", "DATA_W"}
Values(q) == [i \in DOMAIN q |-> q[i].v]
Written(c) == Values(SelectSeq(log[c], IsDatarWrite))

\* C17: a write of length n that returns Ok has written to the data register
\* exactly the write-direction address byte, the register index, then
\* buf[0], .., buf[n-1] in that order, n + 2 bytes, and before each data byte
\* transmit-register-empty was observed after the data-register write before.
C17_WriteByteSequence ==
  \A c \in Callers :
    Returned(c) /\ op[c] = "write" /\ result[c] = "I2C_OK" =>
      /\ Written(c) = <<addr[c] - (addr[c] % 2), reg[c]>>
                        \o SubSeq(buf[c], 1, len[c])
      /\ Len(Written(c)) = len[c] + 2
      /\ \A i \in At(c, "DATA_W") :
           \E j \in At(c, "TXE") :
             /\ j < i
             /\ \A k \in DatarWrites(c) : k < i => k < j

C17_Witness ==
  \E c \in Callers :
    /\ Returned(c) /\ op[c] = "write" /\ result[c] = "I2C_OK"
    /\ len[c] = MaxLen /\ Count(c, "DATA_W") = MaxLen
    /\ addr[c] % 2 = 1

\* The last data-register write of a call was an address byte, and no
\* acknowledge of it was observed.
AddressUnacknowledged(c) ==
  \E i \in DatarWrites(c) :
    /\ \A k \in DatarWrites(c) : k <= i
    /\ log[c][i].e \in {"ADDR_W", "ADDR_R"}
    /\ \A j \in DOMAIN log[c] :
         j > i => log[c][j].e \notin {"MASTER_TRANSMITTER_MODE_SELECTED",
                                      "MASTER_RECEIVER_MODE_SELECTED"}

\* C18: a call returns Timeout only with the budget spent in the idle wait,
\* before any START and any data-register write; it returns NoAck only with
\* the budget spent waiting for the acknowledge of an address byte sent
\* after START; a call that found the bus idle and never saw its address
\* acknowledged returns NoAck, never Timeout.
C18_ResultNamesFailedPhase ==
  \A c \in Callers :
    Returned(c) /\ op[c] \in {"ping", "read", "write"} =>
      /\ result[c] = "I2C_ERR_TIMEOUT" =>
           /\ timeout[c] < 0
           /\ Count(c, "IDLE") = 0 /\ Starts(c) = 0 /\ DatarWrites(c) = {}
      /\ result[c] = "I2C_ERR_NACK" =>
           /\ timeout[c] < 0
           /\ Count(c, "IDLE") = 1 /\ Starts(c) >= 1
           /\ AddressUnacknowledged(c)
      /\ Count(c, "IDLE") = 1
           /\ Count(c, "MASTER_TRANSMITTER_MODE_SELECTED") = 0 =>
           result[c] = "I2C_ERR_NACK"

\* A read has returned NoAck from its read-address phase: an acknowledge wait
\* after the repeated START spent the budget.
C18_Witness ==
  \E c \in Callers :
    /\ Returned(c) /\ op[c] = "read" /\ result[c] = "I2C_ERR_NACK"
    /\ Count(c, "ADDR_R") = 1 /\ timeout[c] < 0

\* C19: the driver takes no lock. With each call run as one critical
\* section, no two calls are under way together, no caller asserts START
\* while another stands between its idle wait and its START, and the
\* data-register writes of one bus transaction are one caller's. (Without
\* serialization the state of C19_Witness is reached.)
C19_SerializedCallsDoNotInterleave ==
  excl =>
    /\ \A c \in Callers : \A d \in Callers \ {c} : ~(InCall(c) /\ InCall(d))
    /\ ~raced
    /\ Len(txn) <= 1

\* Without serialization: both callers passed the idle wait before either
\* asserted START, both have asserted START, and their data-register writes
\* alternate within one bus transaction.
C19_Witness ==
  /\ ~excl
  /\ raced
  /\ \A c \in Callers : InCall(c) /\ Starts(c) = 1 /\ Stops(c) = 0
  /\ Len(txn) >= 3

\* C20: read changes only buf[0..len) of its caller's buffer: a read that
\* returned NoAck or Timeout, or has len = 0, left every byte as the caller
\* passed it, and no step of a call changes a byte at an index >= len; no
\* step of write or ping changes a byte of a caller's buffer.
C20_ReadWritesOnlyBelowLength ==
  /\ [](\A c \in Callers :
          /\ op[c] = "read" =>
               /\ \A k \in (len[c] + 1)..BufCap : buf[c][k] = FillBuf[k]
               /\ Returned(c) /\ Failed(c) => buf[c] = FillBuf
          /\ op[c] = "ping" => buf[c] = FillBuf
          /\ op[c] = "write" => \E sd \in BufSeeds : buf[c] = Pattern(sd))
  /\ [][\A c \in Callers :
          InCall(c) /\ buf'[c] # buf[c] =>
            /\ op[c] = "read"
            /\ \E i \in 1..len[c] :
                 \A k \in (1..BufCap) \ {i} : buf'[c][k] = buf[c][k]]_vars

\* A read shorter than the buffer has returned Ok: its first bytes are the
\* ones received and the bytes from index len on are the caller's.
C20_Witness ==
  \E c \in Callers :
    /\ Returned(c) /\ op[c] = "read" /\ result[c] = "I2C_OK"
    /\ len[c] = MaxLen - 1
    /\ \A k \in 1..len[c] : buf[c][k] # FillBuf[k]
    /\ \A k \in (len[c] + 1)..BufCap : buf[c][k] = FillBuf[k]

====
